---- MODULE Spec2Model ----
(***************************************************************************)
(* A model of the MCPStack scripts: the catalog ingestion script            *)
(* (vectorize_mcp_servers.py), the two query scripts (search_chroma.py,     *)
(* explore_chroma.py), the two idea-decomposition agents (idea_agent.py,    *)
(* advanced_idea_agent.py) and the tool-server demo client                  *)
(* (test/client.py).                                                        *)
(*                                                                          *)
(* The world is one machine: the process environment, the catalog file and  *)
(* the on-disk vector store persist; scripts are launched one at a time and *)
(* run to their exit.  Python strings whose content the code inspects       *)
(* (command-line arguments, input lines, task categories) are sequences of  *)
(* one-character strings; Python dicts are functions over string keys.      *)
(* External services (chat model, web search, Wikipedia, embedding model)   *)
(* answer or fail nondeterministically.                                     *)
(***************************************************************************)
EXTENDS Integers, Sequences, FiniteSets, TLC

\* Bounds of the model.
MaxCatalog == 2      \* entries in mcp-servers.json
MaxRuns == 2         \* runs of the vectorize script
MaxArgLen == 2       \* characters of a result-count argument
MaxTasks == 2        \* tasks in a model reply

VARIABLES
    environ,     \* os.environ after load_dotenv(): the two secrets
    catalog,     \* the "servers" list of mcp-servers.json
    chroma_db,   \* ./chroma_db: does the collection exist, and its records
    runs,        \* completed ingestions (Chroma.from_documents returned)
    script,      \* the script of the current / last process
    pc,          \* its position
    status,      \* "idle", "running", "exit0", "exit1", "uncaught"
    raised,      \* the exception that left the entry point, or None
    argv,        \* sys.argv[1:] of the process
    out,         \* what the process printed, in order
    opened,      \* has the process opened the Chroma database
    loc          \* the locals of the process (per script)

vars == <<environ, catalog, chroma_db, runs, script, pc, status, raised, argv, out, opened, loc>>

None == "None"

\* ------------------------------------------------------------------------
\* Python primitives
\* ------------------------------------------------------------------------

\* bool(v) of an Optional[str]
Truthy(v) == v # None /\ v # ""

\* dict.get(key, default)
Get(d, k, default) == IF k \in DOMAIN d THEN d[k] ELSE default

\* All sequences over S of length at most n.
SeqsUpTo(S, n) == UNION {[1..k -> S] : k \in 0..n}

Digits == {"0", "2", "5"}
DigitVal(c) == CASE c = "0" -> 0 [] c = "2" -> 2 [] c = "5" -> 5
Whitespace == {" "}

RECURSIVE lstrip(_)
lstrip(s) == IF s # <<>> /\ Head(s) \in Whitespace THEN lstrip(Tail(s)) ELSE s

RECURSIVE rstrip(_)
rstrip(s) ==
    IF s # <<>> /\ s[Len(s)] \in Whitespace THEN rstrip(SubSeq(s, 1, Len(s) - 1)) ELSE s

\* str.strip()
strip(s) == rstrip(lstrip(s))

RECURSIVE DecimalValue(_)
DecimalValue(ds) ==
    IF ds = <<>> THEN 0
    ELSE 10 * DecimalValue(SubSeq(ds, 1, Len(ds) - 1)) + DigitVal(ds[Len(ds)])

\* int(s): surrounding whitespace is dropped, one optional sign, then one or
\* more decimal digits; anything else raises ValueError.
int(s) ==
    LET t == strip(s)
        signed == t # <<>> /\ Head(t) \in {"-", "+"}
        ds == IF signed THEN Tail(t) ELSE t
    IN  IF ds # <<>> /\ \A i \in 1..Len(ds) : ds[i] \in Digits
        THEN [ok |-> TRUE,
              val |-> IF signed /\ Head(t) = "-" THEN 0 - DecimalValue(ds) ELSE DecimalValue(ds)]
        ELSE [ok |-> FALSE, val |-> 0]

\* min(a, b)
min(a, b) == IF a <= b THEN a ELSE b

\* ------------------------------------------------------------------------
\* The vector store (Chroma collection "mcp_servers")
\* ------------------------------------------------------------------------

\* client.get_collection(COLLECTION_NAME) raises when the collection was
\* never created.
HasCollection(db) == db.exists

\* collection.count()
count(db) == Len(db.records)

\* collection.query(query_texts=[q], n_results=n): the n nearest records, all
\* of them when the collection holds fewer; a count below 1 is rejected with
\* an exception.  The ranking by distance is abstracted to the stored order.
collection_query(db, n) ==
    IF n <= 0 THEN [raised |-> TRUE, ids |-> <<>>]
    ELSE [raised |-> FALSE, ids |-> [i \in 1..min(n, count(db)) |-> db.records[i].id]]

\* ------------------------------------------------------------------------
\* vectorize_mcp_servers.py
\* ------------------------------------------------------------------------

\* Entries of mcp-servers.json: one with every field, two with fields missing.
FullServer ==
    [displayName |-> "GitHub", qualifiedName |-> "@smithery/github",
     description |-> "GitHub integration", homepage |-> "https://smithery.ai/github",
     useCount |-> 7, createdAt |-> "2025-01-01"]
BareServer == [qualifiedName |-> "@smithery/db", useCount |-> 3]
TextServer == [displayName |-> "Browser", description |-> "Browser automation"]
Servers == {FullServer, BareServer, TextServer}

\* load_mcp_servers: the "servers" list of the JSON file.
load_mcp_servers(file) == file

\* The metadata of the document made from entry i (positions count from 1,
\* enumerate() from 0: the id is i - 1).
MetadataOf(i, server) ==
    [id |-> i - 1,
     qualifiedName |-> Get(server, "qualifiedName", ""),
     displayName |-> Get(server, "displayName", ""),
     description |-> Get(server, "description", ""),
     homepage |-> Get(server, "homepage", ""),
     useCount |-> Get(server, "useCount", 0),
     createdAt |-> Get(server, "createdAt", "")]

ContentOf(server) ==
    <<Get(server, "displayName", ""), Get(server, "qualifiedName", ""),
      Get(server, "description", ""), Get(server, "homepage", ""),
      Get(server, "useCount", 0), Get(server, "createdAt", "")>>

\* Variant of create_documents_from_servers: enumerate(servers, 1).
DocumentsNumberedFromOne(servers) ==
    [i \in 1..Len(servers) |->
        [page_content |-> ContentOf(servers[i]), metadata |-> MetadataOf(i + 1, servers[i])]]

\* create_documents_from_servers: one Document per entry, in order.
create_documents_from_servers(servers) ==
    [i \in 1..Len(servers) |->
        [page_content |-> ContentOf(servers[i]), metadata |-> MetadataOf(i, servers[i])]]

\* Variant of Chroma_from_documents: ids=[metadata id] is passed, so a record
\* with a known id is overwritten.
UpsertByMetadataId(db, documents) ==
    [exists |-> TRUE,
     records |->
        [i \in 1..(IF count(db) >= Len(documents) THEN count(db) ELSE Len(documents)) |->
            IF i <= Len(documents)
            THEN [id |-> i, document |-> documents[i].page_content,
                  metadata |-> documents[i].metadata]
            ELSE db.records[i]]]

\* Chroma.from_documents(documents, embedding, persist_directory,
\* collection_name): gets or creates the collection and adds one record per
\* document.  No ids are passed, so every record gets a fresh id (a uuid,
\* here the next unused number) whatever the collection already holds.
Chroma_from_documents(db, documents) ==
    [exists |-> TRUE,
     records |-> db.records \o
        [i \in 1..Len(documents) |->
            [id |-> count(db) + i, document |-> documents[i].page_content,
             metadata |-> documents[i].metadata]]]

\* query_vector_store(vector_store, query, k)
query_vector_store(db, k) == collection_query(db, k)

example_queries ==
    <<"GitHub integration", "Database management", "Web search capabilities",
      "Task management tools", "Browser automation">>

\* main() of vectorize_mcp_servers.py, from launch to exit.  The embedding
\* model or the store may fail inside vectorize_documents; nothing catches it.
vectorize_main(fails) ==
    /\ status # "running"
    /\ runs < MaxRuns
    /\ LET servers == load_mcp_servers(catalog)
           documents == create_documents_from_servers(servers)
           db == Chroma_from_documents(chroma_db, documents)
           head == <<[kind |-> "loaded", n |-> Len(servers)]>>
       IN  /\ script' = "vectorize_mcp_servers"
           /\ argv' = <<>>
           /\ pc' = "exit"
           /\ opened' = ~fails
           /\ loc' = [servers |-> servers, documents |-> documents]
           /\ IF fails
              THEN /\ status' = "uncaught"
                   /\ raised' = "EmbeddingError"
                   /\ out' = head
                   /\ UNCHANGED <<chroma_db, runs>>
              ELSE /\ status' = "exit0"
                   /\ raised' = None
                   /\ chroma_db' = db
                   /\ runs' = runs + 1
                   /\ out' = head \o <<[kind |-> "stored"]>> \o
                        [q \in 1..Len(example_queries) |->
                            [kind |-> "top", n |-> Len(query_vector_store(db, 3).ids)]]
    /\ UNCHANGED <<environ, catalog>>

\* ------------------------------------------------------------------------
\* search_chroma.py
\* ------------------------------------------------------------------------

ArgChars == {"0", "2", "-", " "}

\* The result-count strings a user can type.
CountArgs == SeqsUpTo(ArgChars, MaxArgLen)

\* The lines printed for a query result: "Found k results" and one block per hit.
ResultLines(ids) ==
    <<[kind |-> "found", n |-> Len(ids)]>> \o [i \in 1..Len(ids) |-> [kind |-> "result", n |-> i]]

\* Variant of search_collection: the query is made with the default count.
SearchWithDefaultCount(db, n_results) ==
    LET results == collection_query(db, 5)
    IN  IF ~HasCollection(db)
        THEN [raised |-> "CollectionNotFound", out |-> <<[kind |-> "using", n |-> 0]>>]
        ELSE IF results.raised
        THEN [raised |-> "InvalidCount", out |-> <<[kind |-> "using", n |-> 0]>>]
        ELSE [raised |-> None, out |-> <<[kind |-> "using", n |-> 0]>> \o ResultLines(results.ids)]

\* search_collection(query_text, n_results) of search_chroma.py: opens the
\* database, gets the collection, queries it and prints the hits.  Nothing in
\* it catches; the result says which call raised, if any.
search_collection(db, n_results) ==
    LET results == collection_query(db, n_results)
    IN  IF ~HasCollection(db)
        THEN [raised |-> "CollectionNotFound", out |-> <<[kind |-> "using", n |-> 0]>>]
        ELSE IF results.raised
        THEN [raised |-> "InvalidCount", out |-> <<[kind |-> "using", n |-> 0]>>]
        ELSE [raised |-> None, out |-> <<[kind |-> "using", n |-> 0]>> \o ResultLines(results.ids)]

\* The __main__ block of search_chroma.py, from launch to exit; args is
\* sys.argv[1:].
search_chroma_main(args) ==
    /\ status # "running"
    /\ script' = "search_chroma"
    /\ argv' = args
    /\ pc' = "exit"
    /\ IF Len(args) + 1 < 2
       THEN /\ out' = <<[kind |-> "usage", n |-> 0]>>
            /\ status' = "exit1"
            /\ raised' = None
            /\ opened' = FALSE
            /\ loc' = [n_results |-> 0, typed |-> None, searched |-> FALSE]
       ELSE LET parsed == IF Len(args) + 1 > 2 THEN int(args[2]) ELSE [ok |-> TRUE, val |-> 5]
                r == search_collection(chroma_db, parsed.val)
            IN  IF ~parsed.ok
                THEN /\ out' = <<>>
                     /\ status' = "uncaught"
                     /\ raised' = "ValueError"
                     /\ opened' = FALSE
                     /\ loc' = [n_results |-> 0, typed |-> None, searched |-> FALSE]
                ELSE /\ out' = r.out
                     /\ status' = IF r.raised = None THEN "exit0" ELSE "uncaught"
                     /\ raised' = r.raised
                     /\ opened' = TRUE
                     /\ loc' = [n_results |-> parsed.val, typed |-> None, searched |-> TRUE]
    /\ UNCHANGED <<environ, catalog, chroma_db, runs>>

\* ------------------------------------------------------------------------
\* explore_chroma.py
\* ------------------------------------------------------------------------

\* search_collection(collection, query_text, n_results) of explore_chroma.py.
explore_search_collection(db, n_results) ==
    LET results == collection_query(db, n_results)
    IN  IF results.raised
        THEN [raised |-> "InvalidCount", out |-> <<[kind |-> "searching", n |-> 0]>>]
        ELSE [raised |-> None, out |-> <<[kind |-> "searching", n |-> 0]>> \o ResultLines(results.ids)]

\* explore_collection: the count and min(5, count) sample documents.
explore_collection(db) ==
    <<[kind |-> "contains", n |-> count(db)], [kind |-> "samples", n |-> min(5, count(db))]>>

\* main() of explore_chroma.py up to the first menu prompt.
explore_main ==
    /\ status # "running"
    /\ script' = "explore_chroma"
    /\ argv' = <<>>
    /\ opened' = TRUE
    /\ raised' = None
    /\ loc' = [n_results |-> 0, typed |-> None, searched |-> FALSE]
    /\ IF ~HasCollection(chroma_db)
       THEN /\ out' = <<[kind |-> "collections", n |-> 0], [kind |-> "no_collections", n |-> 0]>>
            /\ status' = "exit0"
            /\ pc' = "exit"
       ELSE /\ out' = <<[kind |-> "collections", n |-> 1]>> \o explore_collection(chroma_db)
            /\ status' = "running"
            /\ pc' = "menu"
    /\ UNCHANGED <<environ, catalog, chroma_db, runs>>

\* One turn of the menu loop of explore_chroma.py: the choice, and for a
\* search the count typed at the prompt.  out is what this turn printed.
explore_menu(choice, typed) ==
    /\ script = "explore_chroma" /\ status = "running" /\ pc = "menu"
    /\ IF choice = "1"
       THEN LET parsed == int(IF typed # <<>> THEN typed ELSE <<"5">>)
                r == explore_search_collection(chroma_db, parsed.val)
            IN  IF ~parsed.ok
                THEN /\ out' = <<>>
                     /\ status' = "uncaught" /\ raised' = "ValueError" /\ pc' = "exit"
                     /\ loc' = [n_results |-> 0, typed |-> typed, searched |-> FALSE]
                ELSE /\ out' = r.out
                     /\ raised' = r.raised
                     /\ status' = IF r.raised = None THEN "running" ELSE "uncaught"
                     /\ pc' = IF r.raised = None THEN "menu" ELSE "exit"
                     /\ loc' = [n_results |-> parsed.val, typed |-> typed, searched |-> TRUE]
       ELSE IF choice = "2"
       THEN /\ out' = <<[kind |-> "exiting", n |-> 0]>>
            /\ status' = "exit0" /\ pc' = "exit"
            /\ UNCHANGED <<raised, loc>>
       ELSE /\ out' = <<[kind |-> "invalid", n |-> 0]>>
            /\ UNCHANGED <<status, pc, raised, loc>>
    /\ UNCHANGED <<environ, catalog, chroma_db, runs, script, argv, opened>>

\* ------------------------------------------------------------------------
\* Text the agents inspect.  Cyrillic letters are written in Latin
\* transliteration: "sbor dannyh", "poisk", "razrabotka", "kod", "analiz".
\* ------------------------------------------------------------------------

\* Variant of lower: the text is compared as typed.
SameCase(s) == s

\* str.lower(), on the letters that occur
lower_char(c) ==
    CASE c = "E" -> "e" [] c = "X" -> "x" [] c = "I" -> "i" [] c = "T" -> "t"
      [] c = "Q" -> "q" [] c = "U" -> "u" [] c = "S" -> "s" [] c = "P" -> "p"
      [] c = "R" -> "r" [] c = "K" -> "k" [] OTHER -> c
lower(s) == [i \in 1..Len(s) |-> lower_char(s[i])]

\* sub in s, for Python strings
Contains(sub, s) ==
    \E k \in 0..(Len(s) - Len(sub)) : SubSeq(s, k + 1, k + Len(sub)) = sub

str_exit == <<"e", "x", "i", "t">>
str_quit == <<"q", "u", "i", "t">>
str_sbor_dannyh == <<"s", "b", "o", "r", " ", "d", "a", "n", "n", "y", "h">>
str_poisk == <<"p", "o", "i", "s", "k">>
str_razrabotka == <<"r", "a", "z", "r", "a", "b", "o", "t", "k", "a">>
str_kod == <<"k", "o", "d">>

\* Lines a user types at the "idea" prompt.
Lines ==
    {str_exit, <<"E", "X", "I", "T">>, <<"Q", "u", "i", "t">>, <<>>, <<" ">>,
     <<"e", "x", "i", "t", " ">>, <<"a", "p", "p">>}

\* ------------------------------------------------------------------------
\* The chat model's replies and the structured-output parser
\* ------------------------------------------------------------------------

\* Task and DecomposedIdea: every field is declared without a default, so
\* the parser requires it.
TaskFields == {"name", "description", "tools_needed", "estimated_complexity"}
AdvancedTaskFields == TaskFields \cup {"category"}
DecomposedIdeaFields == {"original_idea", "summary", "tasks", "implementation_plan"}

CollectTask ==
    [name |-> "collect", description |-> "gather the data", tools_needed |-> <<"requests">>,
     estimated_complexity |-> "low",
     category |-> <<"S", "b", "o", "r", " ", "d", "a", "n", "n", "y", "h">>]
DevelopTask ==
    [name |-> "build", description |-> "write the service", tools_needed |-> <<"python", "fastapi">>,
     estimated_complexity |-> "high",
     category |-> <<"R", "a", "z", "r", "a", "b", "o", "t", "k", "a">>]
AnalyseTask ==
    [name |-> "analyse", description |-> "study the data", tools_needed |-> <<>>,
     estimated_complexity |-> "medium",
     category |-> <<"a", "n", "a", "l", "i", "z">>]
\* a task object that lacks a declared field
BrokenTask == [name |-> "broken", description |-> "no complexity given"]

ReplyTasks == {CollectTask, DevelopTask, AnalyseTask}

JsonReply(tasks) ==
    [json |-> TRUE, text |-> "json",
     obj |-> [original_idea |-> "an app", summary |-> "app summary", tasks |-> tasks,
              implementation_plan |-> "first collect, then build"]]

\* What the model can answer: prose, JSON that lacks a field of the record,
\* JSON with a malformed task, and complete JSON with 0..MaxTasks tasks.
Replies ==
    {[json |-> FALSE, text |-> "prose", obj |-> [text |-> "prose"]],
     [json |-> TRUE, text |-> "json without tasks",
      obj |-> [original_idea |-> "an app", summary |-> "app summary",
               implementation_plan |-> "a plan"]],
     [json |-> TRUE, text |-> "json with a broken task",
      obj |-> [original_idea |-> "an app", summary |-> "app summary",
               tasks |-> <<BrokenTask>>, implementation_plan |-> "a plan"]]}
    \cup {JsonReply(ts) : ts \in SeqsUpTo(ReplyTasks, MaxTasks)}

\* One outcome of a call to the chat model: it fails, or it answers.
ChainOutcomes == {[fail |-> TRUE, reply |-> None]} \cup {[fail |-> FALSE, reply |-> r] : r \in Replies}

\* A record restricted to the declared fields (undeclared ones are ignored).
Project(d, fields) == [k \in fields |-> d[k]]

\* Variant of parser_parse: nothing is validated, an absent field is empty.
ParseAcceptsAnything(result, fields) ==
    [ok |-> TRUE,
     value |-> [k \in DecomposedIdeaFields |-> Get(result.obj, k, <<>>)]]

\* parser.parse(text) for PydanticOutputParser(DecomposedIdea): the text must
\* be JSON that carries every declared field of the record and of each task;
\* otherwise it raises.  fields are the declared fields of Task.
parser_parse(result, fields) ==
    IF /\ result.json
       /\ DecomposedIdeaFields \subseteq DOMAIN result.obj
       /\ \A i \in 1..Len(result.obj.tasks) : fields \subseteq DOMAIN result.obj.tasks[i]
    THEN [ok |-> TRUE,
          value |-> [Project(result.obj, DecomposedIdeaFields) EXCEPT
                        !.tasks = [i \in 1..Len(result.obj.tasks) |->
                                      Project(result.obj.tasks[i], fields)]]]
    ELSE [ok |-> FALSE, value |-> None]

\* ------------------------------------------------------------------------
\* The process environment of the idea agents
\* ------------------------------------------------------------------------

Environs == [DEEPSEEK_API_KEY : {None, "", "sk-1"}, TAVILY_API_KEY : {None, "tvly-1"}]

\* The locals of an idea-agent process.
IdeaLocals ==
    [model_created |-> FALSE,   \* ChatDeepSeek(...) has been constructed
     prompted |-> FALSE,        \* input() has been called
     called |-> FALSE,          \* the chat model has been invoked
     idea |-> <<>>,             \* the line last read
     reply |-> [fail |-> TRUE, reply |-> None],  \* what the decomposition model call did
     model_failed |-> FALSE,    \* a chat-model call of the current process_idea raised
     turn_runs |-> 0,           \* calls of decompose_idea / process_idea since the last input()
     steps |-> <<>>,            \* graph nodes entered by the current process_idea
     returned |-> [none |-> None],  \* what the graph node that ran last returned
     state |-> [idea |-> None], \* the graph state of the current process_idea
     result |-> [none |-> None]]  \* what decompose_idea / process_idea returned

\* Module level of idea_agent.py and advanced_idea_agent.py: load_dotenv, the
\* key check, then the model object, then the interactive loop's banner.
module_load(name, env) ==
    /\ status # "running"
    /\ script' = name
    /\ environ' = env
    /\ argv' = <<>>
    /\ opened' = FALSE
    /\ IF ~Truthy(env.DEEPSEEK_API_KEY)
       THEN /\ status' = "uncaught" /\ raised' = "ValueError" /\ pc' = "exit"
            /\ out' = <<>>
            /\ loc' = IdeaLocals
       ELSE /\ status' = "running" /\ raised' = None /\ pc' = "prompt"
            /\ out' = <<[kind |-> "banner"]>>
            /\ loc' = [IdeaLocals EXCEPT !.model_created = TRUE]
    /\ UNCHANGED <<catalog, chroma_db, runs>>

\* ------------------------------------------------------------------------
\* idea_agent.py
\* ------------------------------------------------------------------------

idea_agent_load(env) == module_load("idea_agent", env)

\* decompose_idea(idea): outcome is what decomposition_chain.invoke did.
decompose_idea(idea, outcome) ==
    IF outcome.fail THEN [error |-> "chain failed"]
    ELSE LET parsed == parser_parse(outcome.reply, TaskFields)
         IN  IF parsed.ok THEN parsed.value ELSE [raw_response |-> outcome.reply.text]

\* What one turn of interactive_decomposition prints for a result.
PrintDecomposition(result) ==
    IF "error" \in DOMAIN result THEN <<[kind |-> "error", text |-> result.error]>>
    ELSE IF "raw_response" \in DOMAIN result
    THEN <<[kind |-> "parse_error"], [kind |-> "raw", text |-> result.raw_response]>>
    ELSE <<[kind |-> "summary", text |-> result.summary]>>
         \o [i \in 1..Len(result.tasks) |-> [kind |-> "task", task |-> result.tasks[i]]]
         \o <<[kind |-> "plan", text |-> result.implementation_plan]>>

\* One turn of the loop of interactive_decomposition: the line read, and what
\* the model does if it is called.  out is what this turn printed.
interactive_decomposition(line, outcome) ==
    /\ script = "idea_agent" /\ status = "running" /\ pc = "prompt"
    /\ IF lower(line) \in {str_exit, str_quit}
       THEN /\ out' = <<[kind |-> "bye"]>>
            /\ status' = "exit0" /\ pc' = "exit"
            /\ loc' = [loc EXCEPT !.prompted = TRUE, !.idea = line, !.turn_runs = 0]
       ELSE IF strip(line) = <<>>
       THEN /\ out' = <<[kind |-> "please"]>>
            /\ loc' = [loc EXCEPT !.prompted = TRUE, !.idea = line, !.turn_runs = 0]
            /\ UNCHANGED <<status, pc>>
       ELSE LET result == decompose_idea(line, outcome)
            IN  /\ out' = PrintDecomposition(result)
                /\ loc' = [loc EXCEPT !.prompted = TRUE, !.called = TRUE, !.idea = line,
                                      !.turn_runs = 1,
                                      !.reply = outcome, !.result = result]
                /\ UNCHANGED <<status, pc>>
    /\ UNCHANGED <<environ, catalog, chroma_db, runs, script, raised, argv, opened>>

\* ------------------------------------------------------------------------
\* advanced_idea_agent.py
\* ------------------------------------------------------------------------

advanced_idea_agent_load(env) == module_load("advanced_idea_agent", env)

\* The keys of AgentState: the graph keeps one channel per declared key, and
\* a key a node returns that is not declared has no channel to go to.
AgentState == {"idea", "decomposed_idea", "research_results", "current_task", "final_report"}

\* state.get(key) of a key that was never written, and {}.
NoneObject == [type |-> "NoneType", fields |-> [n \in {} |-> None]]
EmptyDict == [n \in {} |-> None]
NoData == [kind |-> "none"]

\* The graph state after a node returned update.
ApplyUpdate(state, update) ==
    [k \in DOMAIN state \cup (DOMAIN update \cap AgentState) |->
        IF k \in DOMAIN update THEN update[k] ELSE state[k]]

\* One outcome of the two searches and of the code-generation call for a task.
ToolOutcomes == [web : {"ok", "fail"}, wiki : {"ok", "fail"}, code : {"ok", "fail"}]

\* search_web: the search tool is built before the try, and building it needs
\* TAVILY_API_KEY; a failure of the search itself becomes an error string.
search_web(query, env, outcome) ==
    IF ~Truthy(env.TAVILY_API_KEY) THEN [raised |-> "ValidationError", value |-> NoData]
    ELSE IF outcome = "fail"
    THEN [raised |-> None, value |-> [kind |-> "error", tool |-> "search_web", query |-> query]]
    ELSE [raised |-> None, value |-> [kind |-> "results", tool |-> "search_web", query |-> query]]

\* search_wikipedia
search_wikipedia(query, outcome) ==
    IF outcome = "fail"
    THEN [raised |-> None, value |-> [kind |-> "error", tool |-> "search_wikipedia", query |-> query]]
    ELSE [raised |-> None, value |-> [kind |-> "results", tool |-> "search_wikipedia", query |-> query]]

\* generate_code_snippet: a chat-model call with nothing around it.
generate_code_snippet(task_description, outcome) ==
    IF outcome = "fail" THEN [raised |-> "ModelError", value |-> NoData]
    ELSE [raised |-> None, value |-> [kind |-> "code", task_description |-> task_description]]

\* decompose_idea_step.  The parsed record is a DecomposedIdea object; the
\* fallback built when parsing fails is a plain dict with the same four keys.
decompose_idea_step(state, outcome) ==
    IF outcome.fail THEN [raised |-> "ModelError", update |-> [idea |-> state.idea]]
    ELSE LET parsed == parser_parse(outcome.reply, AdvancedTaskFields)
         IN  [raised |-> None,
              update |-> [decomposed_idea |->
                 IF parsed.ok THEN [type |-> "DecomposedIdea", fields |-> parsed.value]
                 ELSE [type |-> "dict",
                       fields |-> [original_idea |-> state.idea, summary |-> "parse error",
                                   tasks |-> <<>>, implementation_plan |-> outcome.reply.text]]]]

\* not decomposed_idea: None and the empty dict are false.
Falsy(d) == d.type = "NoneType" \/ (d.type = "dict" /\ DOMAIN d.fields = {})

\* The tasks a step works on: those whose lower-cased category contains one
\* of the step's words.
Matching(tasks, words) ==
    {i \in 1..Len(tasks) : \E w \in words : Contains(w, lower(tasks[i].category))}

\* A dict built by assigning d[tasks[i].name] = values[i] for i in order: the
\* last assignment to a name stays.
Last(S) == CHOOSE i \in S : \A j \in S : j <= i
DictByName(tasks, S, values) ==
    [n \in {tasks[i].name : i \in S} |-> values[Last({i \in S : tasks[i].name = n})]]

\* research_tasks.  outs[i] is what the services do for task i.
research_tasks(state, env, outs) ==
    LET decomposed_idea == Get(state, "decomposed_idea", NoneObject)
    IN  IF Falsy(decomposed_idea)
        THEN [raised |-> None, update |-> [research_results |-> EmptyDict]]
        ELSE IF decomposed_idea.type # "DecomposedIdea"
        THEN [raised |-> "AttributeError", update |-> [idea |-> state.idea]]
        ELSE LET d == decomposed_idea.fields
                 S == Matching(d.tasks, {str_sbor_dannyh, str_poisk})
                 web(i) == search_web(<<d.summary, d.tasks[i].name>>, env, outs[i].web)
                 wiki(i) == search_wikipedia(d.tasks[i].name, outs[i].wiki)
                 entry(i) == [web_search |-> web(i).value, wikipedia |-> wiki(i).value]
             IN  IF \E i \in S : web(i).raised # None
                 THEN [raised |-> "ValidationError", update |-> [idea |-> state.idea]]
                 ELSE [raised |-> None,
                       update |-> [research_results |->
                                      DictByName(d.tasks, S, [i \in S |-> entry(i)])]]

\* generate_code_for_tasks
generate_code_for_tasks(state, outs) ==
    LET decomposed_idea == Get(state, "decomposed_idea", NoneObject)
    IN  IF Falsy(decomposed_idea)
        THEN [raised |-> None, update |-> [code_snippets |-> EmptyDict]]
        ELSE IF decomposed_idea.type # "DecomposedIdea"
        THEN [raised |-> "AttributeError", update |-> [idea |-> state.idea]]
        ELSE LET d == decomposed_idea.fields
                 S == Matching(d.tasks, {str_razrabotka, str_kod})
                 code(i) == generate_code_snippet(<<d.summary, d.tasks[i].description>>, outs[i].code)
                 snippet(i) == code(i).value
             IN  IF \E i \in S : code(i).raised # None
                 THEN [raised |-> "ModelError", update |-> [idea |-> state.idea]]
                 ELSE [raised |-> None,
                       update |-> [code_snippets |->
                                      DictByName(d.tasks, S, [i \in S |-> snippet(i)])]]

\* Variant of create_final_report: the node returns the report under a key
\* other than final_report.
ReportUnderOtherKey(state) ==
    [raised |-> None, update |-> [report |-> [kind |-> "report"]]]

\* create_final_report: the report text, as its parts.
create_final_report(state) ==
    LET decomposed_idea == Get(state, "decomposed_idea", NoneObject)
        research_results == Get(state, "research_results", EmptyDict)
        code_snippets == Get(state, "code_snippets", EmptyDict)
    IN  IF Falsy(decomposed_idea)
        THEN [raised |-> None, update |-> [final_report |-> [kind |-> "not decomposed"]]]
        ELSE IF decomposed_idea.type # "DecomposedIdea"
        THEN [raised |-> "AttributeError", update |-> [idea |-> state.idea]]
        ELSE LET d == decomposed_idea.fields
             IN  [raised |-> None,
                  update |-> [final_report |->
                     [kind |-> "report", summary |-> d.summary, original_idea |-> d.original_idea,
                      tasks |-> [i \in 1..Len(d.tasks) |->
                         [task |-> d.tasks[i],
                          research |-> Get(research_results, d.tasks[i].name, NoData),
                          code |-> Get(code_snippets, d.tasks[i].name, NoData)]],
                      implementation_plan |-> d.implementation_plan]]]

\* A graph node ran: r is what it returned or raised, next the node its edge
\* leads to ("returned" after the last one).  An exception leaves
\* agent_executor.invoke and process_idea turns it into {"error": ...}.
RunNode(name, base, r, next, printed) ==
    /\ out' = out \o printed
    /\ IF r.raised # None
       THEN /\ pc' = "returned"
            /\ loc' = [base EXCEPT !.steps = Append(@, name), !.called = TRUE,
                                   !.model_failed = (r.raised = "ModelError"),
                                   !.result = [error |-> r.raised]]
       ELSE LET state == ApplyUpdate(base.state, r.update)
            IN  /\ pc' = next
                /\ loc' = [base EXCEPT !.steps = Append(@, name), !.called = TRUE,
                                      !.state = state, !.returned = r.update,
                                      !.result = IF next = "returned" THEN state ELSE @]
    /\ UNCHANGED <<environ, catalog, chroma_db, runs, script, status, raised, argv, opened>>

\* The edges added to the workflow: START -> decompose_idea -> research_tasks
\* -> generate_code -> create_report, and nothing after create_report.
Edge(node) ==
    CASE node = "START" -> "decompose_idea"
      [] node = "decompose_idea" -> "research_tasks"
      [] node = "research_tasks" -> "generate_code"
      [] node = "generate_code" -> "create_report"
      [] node = "create_report" -> "returned"

InAdvanced(node) == script = "advanced_idea_agent" /\ status = "running" /\ pc = node

\* One turn of the loop of interactive_mode up to the call of process_idea.
interactive_mode(line) ==
    /\ InAdvanced("prompt")
    /\ IF lower(line) \in {str_exit, str_quit}
       THEN /\ out' = <<[kind |-> "bye"]>>
            /\ status' = "exit0" /\ pc' = "exit"
            /\ loc' = [loc EXCEPT !.prompted = TRUE, !.idea = line, !.turn_runs = 0]
       ELSE IF strip(line) = <<>>
       THEN /\ out' = <<[kind |-> "please"]>>
            /\ loc' = [loc EXCEPT !.prompted = TRUE, !.idea = line, !.turn_runs = 0]
            /\ UNCHANGED <<status, pc>>
       ELSE /\ out' = <<[kind |-> "analysing"]>>
            /\ pc' = Edge("START")
            /\ loc' = [loc EXCEPT !.prompted = TRUE, !.idea = line, !.steps = <<>>,
                                  !.turn_runs = 1, !.returned = [none |-> None],
                                  !.model_failed = FALSE,
                                  !.reply = [fail |-> TRUE, reply |-> None],
                                  !.state = [idea |-> line], !.result = [none |-> None]]
            /\ UNCHANGED status
    /\ UNCHANGED <<environ, catalog, chroma_db, runs, script, raised, argv, opened>>

node_decompose_idea(outcome) ==
    /\ InAdvanced("decompose_idea")
    /\ LET r == decompose_idea_step(loc.state, outcome)
       IN  RunNode("decompose_idea", [loc EXCEPT !.reply = outcome], r, Edge("decompose_idea"),
                   IF r.raised = None /\ r.update.decomposed_idea.type = "dict"
                   THEN <<[kind |-> "parse_error"]>> ELSE <<>>)

node_research_tasks(outs) ==
    /\ InAdvanced("research_tasks")
    /\ RunNode("research_tasks", loc, research_tasks(loc.state, environ, outs),
               Edge("research_tasks"), <<>>)

node_generate_code(outs) ==
    /\ InAdvanced("generate_code")
    /\ RunNode("generate_code", loc, generate_code_for_tasks(loc.state, outs),
               Edge("generate_code"), <<>>)

node_create_report ==
    /\ InAdvanced("create_report")
    /\ RunNode("create_report", loc, create_final_report(loc.state), Edge("create_report"), <<>>)

\* The rest of the turn of interactive_mode, once process_idea has returned.
PrintResult(result) ==
    IF "error" \in DOMAIN result THEN <<[kind |-> "error", text |-> result.error]>>
    ELSE IF "final_report" \in DOMAIN result
    THEN <<[kind |-> "final_report", report |-> result.final_report]>>
    ELSE <<[kind |-> "no_report"]>>

interactive_mode_print ==
    /\ InAdvanced("returned")
    /\ out' = out \o PrintResult(loc.result)
    /\ pc' = "prompt"
    /\ UNCHANGED <<environ, catalog, chroma_db, runs, script, status, raised, argv, opened, loc>>

\* ------------------------------------------------------------------------
\* test/client.py
\* ------------------------------------------------------------------------

ClientLocals == [sessions |-> {}, math |-> "none", weather |-> "none"]

InClient(at) == script = "client" /\ status = "running" /\ pc = at

\* Variant of ClientAfter: print(math_response) comes before the second
\* invocation.
PrintBeforeWeather(at) ==
    CASE at = "enter" -> "invoke_math"
      [] at = "invoke_math" -> "await_math"
      [] at = "await_math" -> "print_math"
      [] at = "print_math" -> "invoke_weather"
      [] at = "invoke_weather" -> "await_weather"
      [] at = "await_weather" -> "print_weather"
      [] at = "print_weather" -> "close"
      [] at = "close" -> "exit"

\* The statements of main() in program order: entering the async with opens
\* both sessions; each await suspends main() until the invocation returns;
\* leaving the async with closes the sessions.
ClientAfter(at) ==
    CASE at = "enter" -> "invoke_math"
      [] at = "invoke_math" -> "await_math"
      [] at = "await_math" -> "invoke_weather"
      [] at = "invoke_weather" -> "await_weather"
      [] at = "await_weather" -> "print_math"
      [] at = "print_math" -> "print_weather"
      [] at = "print_weather" -> "close"
      [] at = "close" -> "exit"

\* An exception inside the async with: the sessions are closed on the way
\* out and the exception leaves main().
ClientRaise(what) ==
    /\ status' = "uncaught" /\ raised' = "ConnectionError" /\ pc' = "exit"
    /\ loc' = [what EXCEPT !.sessions = {}]
    /\ UNCHANGED out

\* async with MultiServerMCPClient({...}) as client, and the agent's creation.
client_enter(ok) ==
    /\ status # "running"
    /\ script' = "client" /\ argv' = <<>> /\ opened' = FALSE
    /\ IF ok
       THEN /\ status' = "running" /\ raised' = None /\ pc' = ClientAfter("enter")
            /\ out' = <<>>
            /\ loc' = [ClientLocals EXCEPT !.sessions = {"math", "weather"}]
       ELSE /\ status' = "uncaught" /\ raised' = "ConnectionError" /\ pc' = "exit"
            /\ out' = <<>>
            /\ loc' = ClientLocals
    /\ UNCHANGED <<environ, catalog, chroma_db, runs>>

\* agent.ainvoke(...) is called for the query `which`.
client_invoke(which) ==
    /\ InClient("invoke_" \o which)
    /\ loc' = [loc EXCEPT ![which] = "issued"]
    /\ pc' = ClientAfter(pc)
    /\ UNCHANGED <<environ, catalog, chroma_db, runs, script, status, raised, argv, out, opened>>

\* The awaited invocation of `which` returns its response, or raises.
client_await(which, ok) ==
    /\ InClient("await_" \o which)
    /\ IF ok
       THEN /\ loc' = [loc EXCEPT ![which] = "returned"]
            /\ pc' = ClientAfter(pc)
            /\ UNCHANGED <<status, raised, out>>
       ELSE ClientRaise([loc EXCEPT ![which] = "failed"])
    /\ UNCHANGED <<environ, catalog, chroma_db, runs, script, argv, opened>>

\* print(math_response) / print(weather_response)
client_print(which) ==
    /\ InClient("print_" \o which)
    /\ out' = Append(out, [kind |-> "response", of |-> which, state |-> loc[which]])
    /\ pc' = ClientAfter(pc)
    /\ UNCHANGED <<environ, catalog, chroma_db, runs, script, status, raised, argv, opened, loc>>

\* The end of the async with block and of main().
client_close ==
    /\ InClient("close")
    /\ loc' = [loc EXCEPT !.sessions = {}]
    /\ pc' = ClientAfter(pc)
    /\ status' = "exit0"
    /\ UNCHANGED <<environ, catalog, chroma_db, runs, script, raised, argv, out, opened>>

\* ------------------------------------------------------------------------
\* Specifications
\* ------------------------------------------------------------------------

Catalogs == SeqsUpTo(Servers, MaxCatalog)

\* Before any script has run: no collection on disk, no process.
InitWith(cs) ==
    /\ catalog \in cs
    /\ environ = [DEEPSEEK_API_KEY |-> None, TAVILY_API_KEY |-> None]
    /\ chroma_db = [exists |-> FALSE, records |-> <<>>]
    /\ runs = 0
    /\ script = "none" /\ pc = "exit" /\ status = "idle" /\ raised = None
    /\ argv = <<>> /\ out = <<>> /\ opened = FALSE
    /\ loc = [none |-> None]

\* The store scripts: ingestion and the two query scripts.
InitStore == InitWith(Catalogs)
NextStore ==
    \/ \E fails \in BOOLEAN : vectorize_main(fails)
    \/ \E args \in {<<>>, <<"GitHub">>} \cup {<<"GitHub", a>> : a \in CountArgs} :
          search_chroma_main(args)
    \/ explore_main
    \/ \E typed \in CountArgs : explore_menu("1", typed)
    \/ \E choice \in {"2", "3"} : explore_menu(choice, <<>>)
SpecStore == InitStore /\ [][NextStore]_vars

\* The agent scripts: the two idea agents and the tool-server client.
InitAgents == InitWith({<<>>})
NextAgents ==
    \/ \E env \in Environs : idea_agent_load(env)
    \/ \E line \in Lines, outcome \in ChainOutcomes : interactive_decomposition(line, outcome)
    \/ \E env \in Environs : advanced_idea_agent_load(env)
    \/ \E line \in Lines : interactive_mode(line)
    \/ \E outcome \in ChainOutcomes : node_decompose_idea(outcome)
    \/ \E outs \in [1..MaxTasks -> ToolOutcomes] : node_research_tasks(outs)
    \/ \E outs \in [1..MaxTasks -> ToolOutcomes] : node_generate_code(outs)
    \/ node_create_report
    \/ interactive_mode_print
    \/ \E ok \in BOOLEAN : client_enter(ok)
    \/ \E which \in {"math", "weather"} : client_invoke(which)
    \/ \E which \in {"math", "weather"}, ok \in BOOLEAN : client_await(which, ok)
    \/ \E which \in {"math", "weather"} : client_print(which)
    \/ client_close
SpecAgents == InitAgents /\ [][NextAgents]_vars

\* Every script on one machine.
Init == InitWith(Catalogs)
Next == NextStore \/ NextAgents
Spec == Init /\ [][Next]_vars

\* ------------------------------------------------------------------------
\* Properties
\* ------------------------------------------------------------------------

\* Exceptions that are the failure of a call to an external service.
ServiceFailures ==
    {"EmbeddingError", "CollectionNotFound", "InvalidCount", "ConnectionError", "ModelError"}

\* C1: no failure of a call to an external service leaves a script's entry
\* point as an uncaught exception.
C1_NoServiceFailureUncaught == ~(status = "uncaught" /\ raised \in ServiceFailures)

IsSearch == script \in {"search_chroma", "explore_chroma"} /\ loc.searched

\* C5: a search with requested count n reports at most n results, whatever
\* the store holds; with the count omitted on the command line, or left blank
\* at the prompt, n is 5.
C5_AtMostRequestedResults ==
    IsSearch =>
        /\ \A i \in 1..Len(out) : out[i].kind \in {"found", "result"} => out[i].n <= loc.n_results
        /\ (script = "search_chroma" /\ Len(argv) = 1) => loc.n_results = 5
        /\ (script = "explore_chroma" /\ Len(loc.typed) = 0) => loc.n_results = 5

\* A search asked for 2 results over a store of 4 records and reported 2.
C5_Witness ==
    /\ IsSearch /\ script = "search_chroma"
    /\ loc.n_results = 2 /\ count(chroma_db) = 4
    /\ \E i \in 1..Len(out) : out[i].kind = "found" /\ out[i].n = 2

MetadataDefaults ==
    [qualifiedName |-> "", displayName |-> "", description |-> "", homepage |-> "",
     useCount |-> 0, createdAt |-> ""]

\* C6: create_documents_from_servers returns one document per catalog entry,
\* in order, document i carrying id i (counted from 0) and the entry's six
\* fields, a missing one replaced by "" (0 for useCount); the entries are as
\* they were.
C6_DocumentsOneToOne ==
    script = "vectorize_mcp_servers" =>
        /\ Len(loc.documents) = Len(catalog)
        /\ loc.servers = catalog
        /\ \A i \in 1..Len(catalog) :
              /\ loc.documents[i].metadata.id = i - 1
              /\ \A f \in DOMAIN MetadataDefaults :
                    loc.documents[i].metadata[f] =
                        IF f \in DOMAIN catalog[i] THEN catalog[i][f] ELSE MetadataDefaults[f]

\* Two entries were converted, the second one lacking fields.
C6_Witness ==
    /\ script = "vectorize_mcp_servers"
    /\ Len(catalog) = 2 /\ Len(loc.documents) = 2
    /\ "homepage" \notin DOMAIN catalog[2]
    /\ "useCount" \notin DOMAIN catalog[2]

\* C7: after k completed ingestions of a catalog of n entries the collection
\* holds k * n records, each with its own id: the k-th run added one record
\* per entry and left the earlier records as they were.
C7_IngestionAccumulates ==
    LET n == Len(catalog)
    IN  /\ count(chroma_db) = runs * n
        /\ chroma_db.exists <=> runs > 0
        /\ \A i \in 1..count(chroma_db) :
              /\ chroma_db.records[i].id = i
              /\ chroma_db.records[i].metadata =
                    MetadataOf(((i - 1) % n) + 1, catalog[((i - 1) % n) + 1])

\* Two runs over a catalog of two entries left four records.
C7_Witness == runs = 2 /\ Len(catalog) = 2 /\ count(chroma_db) = 4

\* C10: the search CLI without a query prints the usage line and exits with
\* status 1 without opening the database; with a count argument it searches
\* with that count; and no count argument ends in an uncaught exception.
C10_SearchCliHandlesArguments ==
    script = "search_chroma" =>
        /\ Len(argv) = 0 =>
              out = <<[kind |-> "usage", n |-> 0]>> /\ status = "exit1" /\ ~opened
        /\ (Len(argv) = 2 /\ loc.searched) => loc.n_results = int(argv[2]).val
        /\ (Len(argv) = 2 /\ HasCollection(chroma_db)) => status # "uncaught"

IsPrefix(s, t) == Len(s) <= Len(t) /\ SubSeq(t, 1, Len(s)) = s

\* The last line read was an idea, and process_idea / decompose_idea got a
\* reply from the model that the parser rejects.
IdeaTurn == lower(loc.idea) \notin {str_exit, str_quit} /\ strip(loc.idea) # <<>>
ReplyUnparsed(fields) ==
    IdeaTurn /\ ~loc.reply.fail /\ ~parser_parse(loc.reply.reply, fields).ok

FourSteps == <<"decompose_idea", "research_tasks", "generate_code", "create_report">>

\* C2: when the model's reply cannot be parsed, the run does not end in an
\* error outcome and the user gets the raw text: idea_agent returns
\* {raw_response} and prints it; in advanced_idea_agent all four steps
\* complete and process_idea returns a final_report that holds the raw text.
C2_UnparsedReplyShowsRawText ==
    /\ (script = "idea_agent" /\ loc.called /\ ReplyUnparsed(TaskFields)) =>
          /\ DOMAIN loc.result = {"raw_response"}
          /\ \E i \in 1..Len(out) : out[i].kind = "raw" /\ out[i].text = loc.reply.reply.text
    /\ (script = "advanced_idea_agent" /\ pc = "returned" /\ ReplyUnparsed(AdvancedTaskFields)) =>
          /\ "error" \notin DOMAIN loc.result
          /\ "final_report" \in DOMAIN loc.result
          /\ loc.result.final_report.implementation_plan = loc.reply.reply.text

\* A decomposition step produced a record: decompose_idea returned the
\* parsed fields, or decompose_idea_step put a record into the graph state.
IdeaAgentRecord ==
    /\ script = "idea_agent" /\ loc.called /\ IdeaTurn
    /\ DOMAIN loc.result \cap {"error", "raw_response", "none"} = {}
AdvancedRecord ==
    /\ script = "advanced_idea_agent" /\ loc.called
    /\ "decomposed_idea" \in DOMAIN loc.state

WellFormed(record, fields) ==
    /\ DOMAIN record = DecomposedIdeaFields
    /\ \A i \in 1..Len(record.tasks) : DOMAIN record.tasks[i] = fields

\* C3 (as stated): every record a decomposition step produces is well-formed
\* and has a non-empty task list.
C3_RecordWellFormedNonEmpty ==
    /\ IdeaAgentRecord => WellFormed(loc.result, TaskFields) /\ Len(loc.result.tasks) > 0
    /\ AdvancedRecord =>
          /\ WellFormed(loc.state.decomposed_idea.fields, AdvancedTaskFields)
          /\ Len(loc.state.decomposed_idea.fields.tasks) > 0

\* C3 (amended): every record a decomposition step produces is well-formed:
\* original idea, summary, task list and implementation plan are present and
\* each task carries its declared fields; the task list may be empty.
C3_RecordWellFormed ==
    /\ IdeaAgentRecord => WellFormed(loc.result, TaskFields)
    /\ AdvancedRecord => WellFormed(loc.state.decomposed_idea.fields, AdvancedTaskFields)

\* The parser returned a record with two tasks to decompose_idea_step.
C3_Witness ==
    /\ AdvancedRecord
    /\ loc.state.decomposed_idea.type = "DecomposedIdea"
    /\ Len(loc.state.decomposed_idea.fields.tasks) = 2

\* C4: once a decomposition exists, whatever it contains, process_idea runs
\* decompose_idea, research_tasks, generate_code and create_report in this
\* order, each once, and returns after create_report.
C4_FourStepsInOrder ==
    script = "advanced_idea_agent" =>
        /\ IsPrefix(loc.steps, FourSteps)
        /\ (pc = "returned" /\ "decomposed_idea" \in DOMAIN loc.state) => loc.steps = FourSteps

\* C8: DEEPSEEK_API_KEY is the one secret the idea scripts need: without it
\* loading fails with ValueError before the model object exists and before
\* any model call or prompt; with it, a run whose model calls succeed and
\* whose reply parses does not end in an error outcome, whatever else the
\* environment lacks.
C8_OnlyModelKeyNeeded ==
    script \in {"idea_agent", "advanced_idea_agent"} =>
        /\ ~Truthy(environ.DEEPSEEK_API_KEY) =>
              /\ status = "uncaught" /\ raised = "ValueError"
              /\ ~loc.model_created /\ ~loc.called /\ ~loc.prompted
        /\ ( /\ script = "advanced_idea_agent" /\ pc = "returned"
             /\ Truthy(environ.DEEPSEEK_API_KEY)
             /\ ~loc.model_failed
             /\ "decomposed_idea" \in DOMAIN loc.state
             /\ loc.state.decomposed_idea.type = "DecomposedIdea" )
           => "error" \notin DOMAIN loc.result

\* C9: in test/client.py the weather query is issued only after the math
\* query has returned, the responses are printed (math, then weather) only
\* after both have returned, and both sessions are open for as long as main()
\* is inside the async with block and closed once it has left it.
C9_ClientInvocationsSequential ==
    script = "client" =>
        /\ loc.weather # "none" => loc.math = "returned"
        /\ out # <<>> => loc.math = "returned" /\ loc.weather = "returned"
        /\ IsPrefix([i \in 1..Len(out) |-> out[i].of], <<"math", "weather">>)
        /\ status = "running" => loc.sessions = {"math", "weather"}
        /\ status # "running" => loc.sessions = {}

\* main() of the client ran to its end and printed both responses.
C9_Witness ==
    /\ script = "client" /\ status = "exit0"
    /\ Len(out) = 2 /\ loc.math = "returned" /\ loc.weather = "returned"

\* The tasks of the decomposition held in the graph state, and the entries of
\* the report process_idea returned.
StateTasks == loc.state.decomposed_idea.fields.tasks
ReportTasks == loc.result.final_report.tasks
Decomposed ==
    /\ script = "advanced_idea_agent"
    /\ "decomposed_idea" \in DOMAIN loc.state
    /\ loc.state.decomposed_idea.type = "DecomposedIdea"
ReportReturned ==
    Decomposed /\ pc = "returned" /\ "final_report" \in DOMAIN loc.result

\* C11: in advanced_idea_agent each step's output reaches the report: for
\* every task whose category contains "razrabotka" or "kod" the generate_code
\* step returns a snippet under the task's name and the report returned by
\* process_idea has that snippet under that task; for every task whose
\* category contains "sbor dannyh" or "poisk" the report has the task's web
\* and Wikipedia results.
C11_StepOutputsReachReport ==
    /\ (Decomposed /\ pc = "create_report") =>
          /\ "code_snippets" \in DOMAIN loc.returned
          /\ \A i \in Matching(StateTasks, {str_razrabotka, str_kod}) :
                 /\ StateTasks[i].name \in DOMAIN loc.returned.code_snippets
                 /\ loc.returned.code_snippets[StateTasks[i].name].kind = "code"
    /\ ReportReturned =>
          /\ \A i \in Matching(StateTasks, {str_razrabotka, str_kod}) :
                 /\ ReportTasks[i].task = StateTasks[i]
                 /\ ReportTasks[i].code.kind = "code"
          /\ \A i \in Matching(StateTasks, {str_sbor_dannyh, str_poisk}) :
                 /\ ReportTasks[i].task = StateTasks[i]
                 /\ DOMAIN ReportTasks[i].research = {"web_search", "wikipedia"}
                 /\ ReportTasks[i].research.web_search.kind \in {"results", "error"}
                 /\ ReportTasks[i].research.wikipedia.kind \in {"results", "error"}

\* Of the lines a loop reads here: those that are "exit" or "quit" in some
\* case, and those that are empty or only whitespace.
ExitLines == {str_exit, <<"E", "X", "I", "T">>, <<"Q", "u", "i", "t">>}
BlankLines == {<<>>, <<" ">>}

\* One step of a script that is inside its interactive loop.
LoopStep ==
    /\ (script \in {"idea_agent", "advanced_idea_agent"} /\ status = "running" /\ pc = "prompt") =>
          LET line == loc'.idea
          IN  /\ loc'.prompted
              /\ line \in ExitLines =>
                    /\ status' = "exit0"
                    /\ loc'.turn_runs = 0 /\ loc'.called = loc.called
              /\ line \in BlankLines =>
                    /\ status' = "running" /\ pc' = "prompt"
                    /\ out' = <<[kind |-> "please"]>>
                    /\ loc'.turn_runs = 0 /\ loc'.called = loc.called
                    /\ loc'.result = loc.result
              /\ line \notin ExitLines \cup BlankLines =>
                    /\ status' = "running"
                    /\ loc'.turn_runs = 1
                    /\ script = "idea_agent" =>
                          /\ pc' = "prompt" /\ loc'.called
                          /\ DOMAIN loc'.result \cap {"none"} = {}
                    /\ script = "advanced_idea_agent" =>
                          /\ pc' = "decompose_idea" /\ loc'.steps = <<>>
    /\ (script = "advanced_idea_agent" /\ status = "running" /\ pc # "prompt") =>
          /\ status' = "running"
          /\ loc'.idea = loc.idea /\ loc'.turn_runs = 1
          /\ pc' # "decompose_idea"
          /\ pc = "returned" => pc' = "prompt"

\* C12: in interactive_decomposition and interactive_mode the loop ends at a
\* line that is "exit" or "quit" in any case and at no other line; an empty
\* or whitespace-only line gives the re-prompt message with no model call and
\* no run; every other line starts exactly one decompose_idea / process_idea
\* run; and whatever a run's outcome is, the loop goes on to read the next
\* line.
C12_LoopEndsOnlyOnExit == [][LoopStep]_vars

\* interactive_mode had a run that ended in an error, went on reading, and
\* ended at the line "Quit".
C12_Witness ==
    /\ script = "advanced_idea_agent" /\ status = "exit0"
    /\ loc.idea = <<"Q", "u", "i", "t">>
    /\ "error" \in DOMAIN loc.result

\* research_tasks has run on a decomposition; the tasks it searches for.
Researched == Decomposed /\ Len(loc.steps) >= 2
SearchTasks == Matching(StateTasks, {str_sbor_dannyh, str_poisk})

\* C13: in the research step of advanced_idea_agent a failing web or
\* Wikipedia search is caught inside the tool: search_web and
\* search_wikipedia do not raise whatever the service does and give an error
\* string when it fails, research_tasks completes, and research_results has
\* an entry for every searched task that holds results or the error string.
C13_SearchFailuresCaught ==
    Researched =>
        /\ \A i \in SearchTasks : \A o \in {"ok", "fail"} :
               LET query == <<loc.state.decomposed_idea.fields.summary, StateTasks[i].name>>
               IN  /\ search_web(query, environ, o).raised = None
                   /\ search_wikipedia(StateTasks[i].name, o).raised = None
                   /\ search_web(query, environ, "fail").value.kind = "error"
                   /\ search_wikipedia(StateTasks[i].name, "fail").value.kind = "error"
        /\ ~(pc = "returned" /\ Len(loc.steps) = 2)
        /\ "research_results" \in DOMAIN loc.state
        /\ \A i \in SearchTasks :
               /\ StateTasks[i].name \in DOMAIN loc.state.research_results
               /\ LET entry == loc.state.research_results[StateTasks[i].name]
                  IN  /\ entry.web_search.kind \in {"results", "error"}
                      /\ entry.wikipedia.kind \in {"results", "error"}

\* C14: decompose_idea and process_idea do not raise and return one shape
\* per call: decompose_idea the four fields of the parsed record, or only
\* raw_response, or only error; process_idea only error, or the final graph
\* state, which has final_report and no error; so interactive_mode never
\* prints that the report could not be created.
C14_OneOutcomeShape ==
    /\ (script \in {"idea_agent", "advanced_idea_agent"} /\ loc.model_created) =>
          status # "uncaught"
    /\ (script = "idea_agent" /\ loc.turn_runs = 1) =>
          /\ status = "running" /\ pc = "prompt"
          /\ DOMAIN loc.result \in {DecomposedIdeaFields, {"raw_response"}, {"error"}}
    /\ (script = "advanced_idea_agent" /\ pc = "returned") =>
          \/ DOMAIN loc.result = {"error"}
          \/ /\ loc.steps = FourSteps /\ loc.result = loc.state
             /\ "final_report" \in DOMAIN loc.result
             /\ "error" \notin DOMAIN loc.result
    /\ script = "advanced_idea_agent" =>
          \A i \in 1..Len(out) : out[i].kind # "no_report"

\* interactive_mode printed the report of a process_idea that returned the
\* final graph state.
C14_Witness ==
    /\ script = "advanced_idea_agent" /\ pc = "prompt" /\ loc.turn_runs = 1
    /\ loc.steps = FourSteps /\ "final_report" \in DOMAIN loc.result
    /\ \E i \in 1..Len(out) : out[i].kind = "final_report"

====
